---- MODULE Spec2Model ----
(***************************************************************************)
(* Data_Quality_Check.ipynb, run top to bottom ("Run All"): the config     *)
(* loader, the Spark session, s3_bucket = Path(SOURCE_S3_BUCKET), the      *)
(* schema loop and the count loop.  A cell that raises stops the run.      *)
(*                                                                         *)
(* Strings that the code takes apart (paths) are sequences of one-letter   *)
(* strings, so that Path(), str() and split('/') are computed.             *)
(***************************************************************************)
EXTENDS Naturals, Sequences, FiniteSets

VARIABLES
    cfg,          \* capstone.cfg as configparser reads it
    fs,           \* the storage: location -> directory tree
    pc,           \* the cell (or loop) the run is at; "done" / "error" end it
    environ,      \* os.environ's two AWS variables
    SOURCE_S3_BUCKET,
    DEST_S3_BUCKET,
    spark,        \* whether the SparkSession exists
    s3_bucket,    \* Path(SOURCE_S3_BUCKET), as str() shows it
    iter,         \* what the running loop's iterdir() has still to yield
    out,          \* the console, one record per printed line (or schema dump)
    listed,       \* the locations iterdir() was called on, in order
    loaded,       \* the spark.read.parquet(path) calls, in order
    err           \* the exception that ended the run

vars == <<cfg, fs, pc, environ, SOURCE_S3_BUCKET, DEST_S3_BUCKET, spark,
          s3_bucket, iter, out, listed, loaded, err>>

\* ---------------------------------------------------------------- bounds

\* Entries (files or subdirectories) a location may hold.
MaxEntries == 2

\* Rows a table may hold.
MaxRows == 2

\* ---------------------------------------------------------------- strings

Slash == "/"

Undef == <<"?">>

RECURSIVE Split(_, _)
\* str.split(sep): the pieces between the separators, empty ones included.
Split(s, sep) ==
    IF \A i \in 1..Len(s) : s[i] # sep
    THEN <<s>>
    ELSE LET i == CHOOSE k \in 1..Len(s) :
                      s[k] = sep /\ \A j \in 1..(k - 1) : s[j] # sep
         IN <<SubSeq(s, 1, i - 1)>> \o Split(SubSeq(s, i + 1, Len(s)), sep)

RECURSIVE Join(_, _)
\* sep.join(parts)
Join(parts, sep) ==
    IF Len(parts) = 0 THEN <<>>
    ELSE IF Len(parts) = 1 THEN parts[1]
    ELSE parts[1] \o <<sep>> \o Join(Tail(parts), sep)

RECURSIVE Components(_)
\* The parts pathlib keeps of a split path: empty and "." pieces are dropped.
Components(pieces) ==
    IF Len(pieces) = 0 THEN <<>>
    ELSE IF Head(pieces) = <<>> \/ Head(pieces) = <<".">>
         THEN Components(Tail(pieces))
         ELSE <<Head(pieces)>> \o Components(Tail(pieces))

\* str(Path(s)) on POSIX: one leading slash is the anchor, repeated and
\* trailing slashes go, and the empty path reads ".".
PathStr(s) ==
    LET parts == Components(Split(s, Slash))
        anchored == Len(s) > 0 /\ s[1] = Slash
    IN  IF anchored THEN <<Slash>> \o Join(parts, Slash)
        ELSE IF Len(parts) = 0 THEN <<".">>
        ELSE Join(parts, Slash)

\* str(dir / name), for a directory already shown by str().
ChildStr(dir, name) ==
    IF dir = <<".">> THEN name
    ELSE IF dir = <<Slash>> THEN dir \o name
    ELSE dir \o <<Slash>> \o name

\* A slip: path.split('/')[0], the first piece instead of the last.
TableOf_First(path) ==
    LET pieces == Split(path, Slash) IN pieces[1]

\* path.split('/')[-1]
TableOf(path) ==
    LET pieces == Split(path, Slash) IN pieces[Len(pieces)]

\* ---------------------------------------------------------------- the environment

\* The four options the config loader reads, as section.option.
Options == {"AWS.AWS_ACCESS_KEY_ID", "AWS.AWS_SECRET_ACCESS_KEY",
            "S3.SOURCE_S3_BUCKET", "S3.DEST_S3_BUCKET"}

\* An option capstone.cfg does not hold (its section missing, or the option).
Missing == <<"!">>

\* Two spellings of the source location, and the destination location.
SourceStrs == { <<"/", "d", "/", "/", "b", "/">>, <<"/", "d", "/", "b">> }

DestStr == <<"/", "o">>

Secret == <<"k">>

Configs ==
    { c \in [Options -> {Missing, Secret, DestStr} \cup SourceStrs] :
        /\ c["AWS.AWS_ACCESS_KEY_ID"] \in {Missing, Secret}
        /\ c["AWS.AWS_SECRET_ACCESS_KEY"] \in {Missing, Secret}
        /\ c["S3.SOURCE_S3_BUCKET"] \in {Missing} \cup SourceStrs
        /\ c["S3.DEST_S3_BUCKET"] \in {Missing, DestStr} }

\* The names an entry of a location may have: "t", "tt", ...
EntryName(i) == [k \in 1..i |-> "t"]

EntryNames == { EntryName(i) : i \in 1..MaxEntries }

\* A schema as printSchema shows it: the fields in order, each with its type.
Field(n, t) == [name |-> n, type |-> t, nullable |-> TRUE]

\* The data model's code table (code, city), as the notebook records it.
ExpectedSchema == << Field("code", "string"), Field("city", "string") >>

NoSchema == << >>

\* The schemas a table on storage may have: the data model's, and one with
\* another type for one field and another name for the other.
Schemas == { ExpectedSchema,
             << Field("code", "long"), Field("town", "string") >> }

Absent == [kind |-> "absent", parquet |-> FALSE, schema |-> NoSchema, rows |-> 0]

PlainFile == [kind |-> "file", parquet |-> FALSE, schema |-> NoSchema, rows |-> 0]

\* A subdirectory Spark cannot read as Parquet (no Parquet file in it).
NotParquet == [kind |-> "dir", parquet |-> FALSE, schema |-> NoSchema, rows |-> 0]

Table(s, n) == [kind |-> "dir", parquet |-> TRUE, schema |-> s, rows |-> n]

\* What a name in a location may be.  Schema and row count are independent
\* in the code, so the tables with another schema come with one row.
Entries ==
    {Absent, PlainFile, NotParquet}
        \cup { Table(ExpectedSchema, n) : n \in 0..MaxRows }
        \cup { Table(s, 1) : s \in Schemas }

NoEntries == [n \in EntryNames |-> Absent]

\* A location: a directory with its entries, a plain file, or nothing.
Trees ==
    { [root |-> "dir", entries |-> e] : e \in [EntryNames -> Entries] }
        \cup { [root |-> "file", entries |-> NoEntries],
               [root |-> "missing", entries |-> NoEntries] }

\* The destination location: one table, and an empty one at that; the
\* notebook has no business there.
DestTree ==
    [root |-> "dir",
     entries |-> [n \in EntryNames |->
                     IF n = EntryName(1) THEN Table(ExpectedSchema, 0)
                     ELSE Absent]]

SourceLoc == <<"/", "d", "/", "b">>

DestLoc == PathStr(DestStr)

Locs == {SourceLoc, DestLoc}

\* ---------------------------------------------------------------- library calls

\* The names a location holds.
Present(tree) == { n \in EntryNames : tree.entries[n].kind # "absent" }

\* Every order a finite set can be enumerated in (os.listdir promises none).
Orders(S) ==
    { o \in [1..Cardinality(S) -> S] :
        \A i, j \in 1..Cardinality(S) : i # j => o[i] # o[j] }

\* The tree at a location; a path that names no location is not there.
TreeAt(store, loc) ==
    IF loc \in DOMAIN store THEN store[loc]
    ELSE [root |-> "missing", entries |-> NoEntries]

\* The entry a path names.
EntryAt(store, path) ==
    IF \E loc \in DOMAIN store, n \in EntryNames :
           store[loc].root = "dir" /\ ChildStr(loc, n) = path
    THEN LET at == CHOOSE p \in (DOMAIN store) \X EntryNames :
                       store[p[1]].root = "dir" /\ ChildStr(p[1], p[2]) = path
         IN store[at[1]].entries[at[2]]
    ELSE Absent

\* A slip: Path.exists() where is_dir() is meant.
IsDir_Exists(store, path) == EntryAt(store, path).kind # "absent"

\* Path.is_dir()
IsDir(store, path) == EntryAt(store, path).kind = "dir"

\* A slip: a reader that hands back an empty dataframe for whatever it is given.
Readable_Always(store, path) == TRUE

\* Whether spark.read.parquet(path) yields a dataframe (else AnalysisException).
Readable(store, path) == EntryAt(store, path).parquet

\* spark.read.parquet(path): the dataframe, with the schema Spark infers.
ReadParquet(store, path) ==
    LET entry == EntryAt(store, path)
    IN  [schema |-> entry.schema, rows |-> entry.rows]

\* df.count()
Count(df) == df.rows

\* A slip: a reader that consumes what it reads (the table is gone after).
StorageAfterRead_Consume(store, path) ==
    [loc \in DOMAIN store |->
        [root |-> store[loc].root,
         entries |-> [n \in EntryNames |->
                         IF ChildStr(loc, n) = path THEN Absent
                         ELSE store[loc].entries[n]]]]

\* The storage after the notebook has read a table (read.parquet, printSchema,
\* count): reading writes nothing.
StorageAfterRead(store, path) == store

\* A slip: a second next() in the loop body, which skips an entry.
Rest_SkipNext(it) == IF Len(it) > 1 THEN Tail(Tail(it)) ELSE Tail(it)

\* The iterator after next(): the entry yielded is gone from it.
Rest(it) == Tail(it)

\* ---------------------------------------------------------------- console

TableLine(name) ==
    [kind |-> "table", name |-> name, schema |-> NoSchema, records |-> 0]

\* df.printSchema(): the whole "root |-- ..." dump, one record.
SchemaDump(df) ==
    [kind |-> "schema", name |-> << >>, schema |-> df.schema, records |-> 0]

NotEmptyLine(name, n) ==
    [kind |-> "count", name |-> name, schema |-> NoSchema, records |-> n]

NoError == [type |-> "none", cell |-> "none", path |-> << >>]

Raise(type, cell, path) == [type |-> type, cell |-> cell, path |-> path]

\* ---------------------------------------------------------------- the run

Init ==
    /\ cfg \in Configs
    /\ fs \in { [loc \in Locs |-> IF loc = DestLoc THEN DestTree ELSE t] :
                   t \in Trees }
    /\ pc = "config"
    /\ environ = [AWS_ACCESS_KEY_ID |-> Undef, AWS_SECRET_ACCESS_KEY |-> Undef]
    /\ SOURCE_S3_BUCKET = Undef
    /\ DEST_S3_BUCKET = Undef
    /\ spark = FALSE
    /\ s3_bucket = Undef
    /\ iter = << >>
    /\ out = << >>
    /\ listed = << >>
    /\ loaded = << >>
    /\ err = NoError

\* The options the loader has read when it stops: all four, or those before
\* the first one capstone.cfg does not hold (config[section][option] raises
\* KeyError; a file that is not there reads as an empty config).
ReadOrder == << "AWS.AWS_ACCESS_KEY_ID", "AWS.AWS_SECRET_ACCESS_KEY",
                "S3.SOURCE_S3_BUCKET", "S3.DEST_S3_BUCKET" >>

FirstMissing(c) ==
    IF \E i \in 1..Len(ReadOrder) : c[ReadOrder[i]] = Missing
    THEN CHOOSE i \in 1..Len(ReadOrder) :
             /\ c[ReadOrder[i]] = Missing
             /\ \A j \in 1..(i - 1) : c[ReadOrder[j]] # Missing
    ELSE Len(ReadOrder) + 1

\* The value assignment number i of the loader leaves in its target.
Loaded(c, i) == IF i < FirstMissing(c) THEN c[ReadOrder[i]] ELSE Undef

LoadConfig ==
    /\ pc = "config"
    /\ environ' = [AWS_ACCESS_KEY_ID |-> Loaded(cfg, 1),
                   AWS_SECRET_ACCESS_KEY |-> Loaded(cfg, 2)]
    /\ SOURCE_S3_BUCKET' = Loaded(cfg, 3)
    /\ DEST_S3_BUCKET' = Loaded(cfg, 4)
    /\ IF FirstMissing(cfg) <= Len(ReadOrder)
       THEN /\ pc' = "error"
            /\ err' = Raise("KeyError", "config", << >>)
       ELSE /\ pc' = "spark"
            /\ err' = err
    /\ UNCHANGED <<cfg, fs, spark, s3_bucket, iter, out, listed, loaded>>

CreateSession ==
    /\ pc = "spark"
    /\ spark' = TRUE
    /\ pc' = "bucket"
    /\ UNCHANGED <<cfg, fs, environ, SOURCE_S3_BUCKET, DEST_S3_BUCKET,
                   s3_bucket, iter, out, listed, loaded, err>>

SetBucket ==
    /\ pc = "bucket"
    /\ s3_bucket' = PathStr(SOURCE_S3_BUCKET)
    /\ pc' = "schema"
    /\ UNCHANGED <<cfg, fs, environ, SOURCE_S3_BUCKET, DEST_S3_BUCKET,
                   spark, iter, out, listed, loaded, err>>

\* The location a loop enumerates.
Enumerated == s3_bucket

\* for file_dir in s3_bucket.iterdir(): the listing is taken when the loop
\* starts, in an order of the file system's choosing.
StartLoop(cell, loop) ==
    /\ pc = cell
    /\ listed' = Append(listed, Enumerated)
    /\ LET tree == TreeAt(fs, Enumerated) IN
         IF tree.root = "dir"
         THEN /\ \E o \in Orders(Present(tree)) :
                    iter' = [i \in 1..Len(o) |-> ChildStr(Enumerated, o[i])]
              /\ pc' = loop
              /\ err' = err
         ELSE /\ iter' = iter
              /\ pc' = "error"
              /\ err' = Raise(IF tree.root = "file" THEN "NotADirectoryError"
                              ELSE "FileNotFoundError", cell, Enumerated)
    /\ UNCHANGED <<cfg, fs, environ, SOURCE_S3_BUCKET, DEST_S3_BUCKET,
                   spark, s3_bucket, out, loaded>>

\* A slip: the is_dir() test left out.
Selected_All(store, file_dir) == TRUE

\* Whether a loop's body runs for an entry: if file_dir.is_dir()
Selected(store, file_dir) == IsDir(store, file_dir)

SchemaLoopStart == StartLoop("schema", "schemaLoop")

\* One iteration of the schema loop.
SchemaLoopStep ==
    /\ pc = "schemaLoop"
    /\ iter # << >>
    /\ iter' = Rest(iter)
    /\ LET file_dir == Head(iter)
           path == file_dir
           df == ReadParquet(fs, path)
       IN  IF ~Selected(fs, file_dir)
           THEN UNCHANGED <<fs, pc, out, loaded, err>>
           ELSE /\ loaded' = Append(loaded, <<"schema", path>>)
                /\ fs' = StorageAfterRead(fs, path)
                /\ IF ~Readable(fs, path)
                   THEN /\ pc' = "error"
                        /\ err' = Raise("AnalysisException", "schema", path)
                        /\ out' = out
                   ELSE /\ out' = out \o <<TableLine(TableOf(path)), SchemaDump(df)>>
                        /\ UNCHANGED <<pc, err>>
    /\ UNCHANGED <<cfg, environ, SOURCE_S3_BUCKET, DEST_S3_BUCKET,
                   spark, s3_bucket, listed>>

\* A slip: a break in the loop body, so that the loop may end early.
SchemaLoopEnd_Break ==
    /\ pc = "schemaLoop"
    /\ pc' = "count"
    /\ UNCHANGED <<cfg, fs, environ, SOURCE_S3_BUCKET, DEST_S3_BUCKET,
                   spark, s3_bucket, iter, out, listed, loaded, err>>

SchemaLoopEnd ==
    /\ pc = "schemaLoop"
    /\ iter = << >>
    /\ pc' = "count"
    /\ UNCHANGED <<cfg, fs, environ, SOURCE_S3_BUCKET, DEST_S3_BUCKET,
                   spark, s3_bucket, iter, out, listed, loaded, err>>

CountLoopStart == StartLoop("count", "countLoop")

\* A slip: record_num < 0, which no count satisfies.
IsEmpty_Negative(record_num) == record_num < 0

\* if record_num <= 0: raise
IsEmpty(record_num) == record_num <= 0

\* A slip: the empty table is noted and the loop goes on to the next one.
CountLoopStep_Collect ==
    /\ pc = "countLoop"
    /\ iter # << >>
    /\ iter' = Rest(iter)
    /\ LET path == Head(iter)
           df == ReadParquet(fs, path)
       IN  IF ~Selected(fs, path)
           THEN UNCHANGED <<loaded, out, err>>
           ELSE /\ loaded' = Append(loaded, <<"count", path>>)
                /\ IF IsEmpty(Count(df))
                   THEN /\ err' = Raise("ValueError", "count", path)
                        /\ out' = out
                   ELSE /\ out' = Append(out, NotEmptyLine(TableOf(path), Count(df)))
                        /\ err' = err
    /\ UNCHANGED <<cfg, fs, pc, environ, SOURCE_S3_BUCKET, DEST_S3_BUCKET,
                   spark, s3_bucket, listed>>

\* One iteration of the count loop.
CountLoopStep ==
    /\ pc = "countLoop"
    /\ iter # << >>
    /\ iter' = Rest(iter)
    /\ LET file_dir == Head(iter)
           path == file_dir
           df == ReadParquet(fs, path)
           record_num == Count(df)
       IN  IF ~Selected(fs, file_dir)
           THEN UNCHANGED <<fs, pc, out, loaded, err>>
           ELSE /\ loaded' = Append(loaded, <<"count", path>>)
                /\ fs' = StorageAfterRead(fs, path)
                /\ IF ~Readable(fs, path)
                   THEN /\ pc' = "error"
                        /\ err' = Raise("AnalysisException", "count", path)
                        /\ out' = out
                   ELSE IF IsEmpty(record_num)
                   THEN /\ pc' = "error"
                        /\ err' = Raise("ValueError", "count", path)
                        /\ out' = out
                   ELSE /\ out' = Append(out, NotEmptyLine(TableOf(path), record_num))
                        /\ UNCHANGED <<pc, err>>
    /\ UNCHANGED <<cfg, environ, SOURCE_S3_BUCKET, DEST_S3_BUCKET,
                   spark, s3_bucket, listed>>

CountLoopEnd ==
    /\ pc = "countLoop"
    /\ iter = << >>
    /\ pc' = "done"
    /\ UNCHANGED <<cfg, fs, environ, SOURCE_S3_BUCKET, DEST_S3_BUCKET,
                   spark, s3_bucket, iter, out, listed, loaded, err>>

Next ==
    \/ LoadConfig
    \/ CreateSession
    \/ SetBucket
    \/ SchemaLoopStart
    \/ SchemaLoopStep
    \/ SchemaLoopEnd
    \/ CountLoopStart
    \/ CountLoopStep
    \/ CountLoopEnd

Spec == Init /\ [][Next]_vars

\* The notebook runs one statement after the other: a step that can be taken is.
FairSpec == Spec /\ WF_vars(Next)

\* ---------------------------------------------------------------- what the claims speak of

\* The location the config names as the source.
SourceTree == TreeAt(fs, PathStr(cfg["S3.SOURCE_S3_BUCKET"]))

\* The tables: the subdirectories of the source location.
Tables == { n \in EntryNames : SourceTree.entries[n].kind = "dir" }

RowsOf(n) == SourceTree.entries[n].rows

SchemaOf(n) == SourceTree.entries[n].schema

PathOfTable(n) == ChildStr(PathStr(cfg["S3.SOURCE_S3_BUCKET"]), n)

ConfigComplete == \A o \in Options : cfg[o] # Missing

\* The run gets to the tables: the config is whole, the source location is a
\* directory, and each subdirectory of it reads as Parquet.
WellFormed ==
    /\ ConfigComplete
    /\ SourceTree.root = "dir"
    /\ \A n \in Tables : SourceTree.entries[n].parquet

Ended == pc \in {"done", "error"}

EmptyTableError == pc = "error" /\ err.type = "ValueError"

\* The paths one pass has loaded, in order.
LoadsOf(pass) ==
    LET idx == { i \in 1..Len(loaded) : loaded[i][1] = pass }
        F[k \in 0..Len(loaded)] ==
            IF k = 0 THEN << >>
            ELSE IF k \in idx THEN Append(F[k - 1], loaded[k][2]) ELSE F[k - 1]
    IN F[Len(loaded)]

\* The console lines of one kind, in order.
LinesOf(kind) ==
    LET F[k \in 0..Len(out)] ==
            IF k = 0 THEN << >>
            ELSE IF out[k].kind = kind THEN Append(F[k - 1], out[k]) ELSE F[k - 1]
    IN F[Len(out)]

Range(q) == { q[i] : i \in 1..Len(q) }

NoRepeat(q) == \A i, j \in 1..Len(q) : i # j => q[i] # q[j]

\* The schema cell is behind the run.
SchemaPassOver ==
    \/ pc \in {"count", "countLoop", "done"}
    \/ pc = "error" /\ err.cell = "count"

\* ---------------------------------------------------------------- C1

\* C1: a run that completes has only tables with more than zero rows; a run
\* whose count loop has ended over a source location with an empty table has
\* ended in the ValueError, raised on a table with no rows, and a run in the
\* error state takes no further step.
C1_EmptyTableRaises ==
    /\ pc = "done" => \A n \in Tables : RowsOf(n) > 0
    /\ (Ended /\ SchemaPassOver /\ \E n \in Tables : RowsOf(n) = 0)
          => /\ EmptyTableError
             /\ err.cell = "count"
             /\ \E n \in Tables : err.path = PathOfTable(n) /\ RowsOf(n) = 0
    /\ pc = "error" => ~ENABLED Next

\* C1 happens: the count loop has raised with a non-empty table beside the
\* empty one.
C1_Witness ==
    /\ EmptyTableError
    /\ \E n \in Tables : RowsOf(n) > 0
    /\ \E n \in Tables : RowsOf(n) = 0

\* ---------------------------------------------------------------- C2

\* C2: when the count loop raises, the failing table is the one loaded last
\* and it was loaded once by that loop; the tables counted before it all had
\* rows and the confirmation lines are theirs, in order, one each; nothing
\* the listing still holds was loaded; one failure is recorded and the run
\* has stopped.
C2_AbortImmediate ==
    err.type = "ValueError" =>
        LET counted == LoadsOf("count")
            before == SubSeq(counted, 1, Len(counted) - 1)
            lines == LinesOf("count")
        IN  /\ pc = "error"
            /\ ~ENABLED Next
            /\ Len(counted) >= 1
            /\ counted[Len(counted)] = err.path
            /\ loaded[Len(loaded)] = <<"count", err.path>>
            /\ NoRepeat(counted)
            /\ EntryAt(fs, err.path).rows <= 0
            /\ \A i \in 1..Len(before) : EntryAt(fs, before[i]).rows > 0
            /\ Len(lines) = Len(before)
            /\ \A i \in 1..Len(before) :
                  /\ lines[i].name = TableOf(before[i])
                  /\ lines[i].records = EntryAt(fs, before[i]).rows
            /\ \A i \in 1..Len(iter) : iter[i] \notin Range(counted)

\* C2 happens: the loop has raised while a table was still to come.
C2_Witness ==
    /\ EmptyTableError
    /\ \E i \in 1..Len(iter) : IsDir(fs, iter[i])

\* ---------------------------------------------------------------- C3

\* C3 (as claimed): once the schema cell is behind the run without an error,
\* every table has the data model's fields and types.
C3_SchemaVerified ==
    (SchemaPassOver /\ err.type \in {"none", "ValueError"})
        => \A n \in Tables : SchemaOf(n) = ExpectedSchema

\* ---------------------------------------------------------------- C4

\* C4: a completed run has printed one confirmation line per table, no
\* other, each with the table's name (the last component of its path) and
\* the table's own row count.
C4_ExactCounts ==
    pc = "done" =>
        LET lines == LinesOf("count") IN
            /\ \A n \in Tables : RowsOf(n) > 0
            /\ Len(lines) = Cardinality(Tables)
            /\ \A n \in Tables :
                  Cardinality({ i \in 1..Len(lines) : lines[i].name = n }) = 1
            /\ \A i \in 1..Len(lines) :
                  /\ lines[i].name \in Tables
                  /\ lines[i].records = RowsOf(lines[i].name)

\* C4 happens: a completed run over two tables of different sizes.
C4_Witness ==
    /\ pc = "done"
    /\ \E n, m \in Tables : RowsOf(n) # RowsOf(m)

\* ---------------------------------------------------------------- C5

\* C5 (as claimed): a run in the error state got there by a table with no rows.
C5_OnlyEmptyTableRaises ==
    pc = "error" =>
        /\ err.type = "ValueError"
        /\ \E n \in Tables : err.path = PathOfTable(n) /\ RowsOf(n) <= 0

\* C5 (amended): a run in the error state got there by one of four causes,
\* each with its own exception: an option missing from the config
\* (KeyError, config cell), a source location that is no directory
\* (FileNotFoundError or NotADirectoryError, schema cell), a subdirectory
\* that does not read as Parquet (AnalysisException, schema cell), a table
\* with no rows (ValueError, count cell).  With none of the first three the
\* only error is the last, and a completed run had none of the four.
C5_FailureModes ==
    /\ pc = "error" =>
          \/ /\ err.type = "KeyError"
             /\ err.cell = "config"
             /\ ~ConfigComplete
          \/ /\ err.type = "FileNotFoundError"
             /\ err.cell = "schema"
             /\ ConfigComplete
             /\ SourceTree.root = "missing"
          \/ /\ err.type = "NotADirectoryError"
             /\ err.cell = "schema"
             /\ ConfigComplete
             /\ SourceTree.root = "file"
          \/ /\ err.type = "AnalysisException"
             /\ err.cell = "schema"
             /\ \E n \in Tables :
                   err.path = PathOfTable(n) /\ ~SourceTree.entries[n].parquet
          \/ /\ err.type = "ValueError"
             /\ err.cell = "count"
             /\ WellFormed
             /\ \E n \in Tables :
                   /\ err.path = PathOfTable(n)
                   /\ SourceTree.entries[n].parquet
                   /\ RowsOf(n) <= 0
    /\ (pc = "error" /\ WellFormed) => err.type = "ValueError"
    /\ pc = "done" => (WellFormed /\ \A n \in Tables : RowsOf(n) > 0)

\* C5 happens: the schema loop has raised on a subdirectory that is no
\* Parquet table.
C5_Witness ==
    /\ pc = "error"
    /\ err.type = "AnalysisException"

\* ---------------------------------------------------------------- C6

\* C6: on the console no schema-pass line follows a count line; each
\* "Table:" header is followed at once by the schema of the table it names,
\* and each schema dump follows such a header; and when the count loop is on
\* (a count line printed, the ValueError raised) the schema pass has printed
\* every table's schema.
C6_Sequential ==
    /\ \A i, j \in 1..Len(out) :
          (i < j /\ out[i].kind = "count") => out[j].kind = "count"
    /\ \A i \in 1..Len(out) :
          out[i].kind = "table" =>
              /\ i < Len(out)
              /\ out[i + 1].kind = "schema"
              /\ out[i].name \in Tables
              /\ out[i + 1].schema = SchemaOf(out[i].name)
    /\ \A i \in 1..Len(out) :
          out[i].kind = "schema" => (i > 1 /\ out[i - 1].kind = "table")
    /\ (pc \in {"count", "countLoop", "done"} \/ err.type = "ValueError"
            \/ LinesOf("count") # << >>)
          => /\ { l.name : l \in Range(LinesOf("table")) } = Tables
             /\ Len(LinesOf("table")) = Cardinality(Tables)
             /\ Len(LinesOf("schema")) = Cardinality(Tables)
    /\ pc \in {"config", "spark", "bucket"} => (out = << >> /\ loaded = << >>)

\* C6 happens: the count loop has printed a line and then raised, after the
\* schema pass over two tables.
C6_Witness ==
    /\ EmptyTableError
    /\ Len(LinesOf("schema")) = 2
    /\ Len(LinesOf("count")) = 1

\* ---------------------------------------------------------------- C7

\* C7: no step of the run changes the storage (or the config file).
C7_ReadOnly == [][fs' = fs /\ cfg' = cfg]_vars

\* C7 happens: a completed run that loaded two tables in each pass.
C7_Witness ==
    /\ pc = "done"
    /\ Len(LoadsOf("schema")) = 2
    /\ Len(LoadsOf("count")) = 2

\* ---------------------------------------------------------------- C8

\* C8: whatever a loop loads, prints or raises on is a subdirectory of the
\* source location; whatever a loop enumerates is the source location and
\* not the destination; and a pass that is over has loaded every
\* subdirectory.
C8_OnlySubdirectories ==
    /\ \A i \in 1..Len(loaded) :
          \E n \in Tables : loaded[i][2] = PathOfTable(n)
    /\ \A i \in 1..Len(out) :
          out[i].kind \in {"table", "count"} => out[i].name \in Tables
    /\ err.type \in {"ValueError", "AnalysisException"} =>
          \E n \in Tables : err.path = PathOfTable(n)
    /\ \A i \in 1..Len(listed) :
          /\ listed[i] = PathStr(cfg["S3.SOURCE_S3_BUCKET"])
          /\ listed[i] # PathStr(cfg["S3.DEST_S3_BUCKET"])
    /\ Len(listed) <= 2
    /\ SchemaPassOver =>
          Range(LoadsOf("schema")) = { PathOfTable(n) : n \in Tables }
    /\ pc = "done" =>
          Range(LoadsOf("count")) = { PathOfTable(n) : n \in Tables }

\* C8 happens: a completed run over a source location with a plain file
\* beside a table.
C8_Witness ==
    /\ pc = "done"
    /\ Tables # {}
    /\ \E n \in EntryNames : SourceTree.entries[n].kind = "file"

\* ---------------------------------------------------------------- C9

\* C9: over a source directory without a subdirectory (the config whole) the
\* run loads nothing, prints nothing and raises nothing, and when it has
\* ended it has completed.
C9_VacuousPass ==
    (ConfigComplete /\ SourceTree.root = "dir" /\ Tables = {}) =>
        /\ out = << >>
        /\ loaded = << >>
        /\ pc # "error"
        /\ err = NoError
        /\ Ended => pc = "done"

\* C9 happens: a completed run over a source location that holds plain
\* files only.
C9_Witness ==
    /\ pc = "done"
    /\ Tables = {}
    /\ Present(SourceTree) # {}

\* ---------------------------------------------------------------- C10

\* What C10 says of the visits, state by state.
VisitsOnce ==
    /\ NoRepeat(LoadsOf("schema"))
    /\ NoRepeat(LoadsOf("count"))
    /\ (WellFormed /\ SchemaPassOver) =>
          /\ Range(LoadsOf("schema")) = { PathOfTable(n) : n \in Tables }
          /\ Len(LoadsOf("schema")) = Cardinality(Tables)
    /\ pc = "done" =>
          /\ Len(LoadsOf("count")) = Cardinality(Tables)
          /\ Range(LoadsOf("count")) = Range(LoadsOf("schema"))
          /\ { l.name : l \in Range(LinesOf("table")) }
                = { l.name : l \in Range(LinesOf("count")) }
    /\ (Ended /\ WellFormed) => (pc = "done" \/ EmptyTableError)

====
